---- MODULE Spec2Model ----
(***************************************************************************)
(* A model of the rover of src/rover.h: Coordinates, Direction,            *)
(* DirectionManager, Position, the Action hierarchy (RotateLeft,           *)
(* RotateRight, MoveForward, MoveBackward, Compose) and the Rover state    *)
(* machine (land, execute, operator<<), driven by the rovers that          *)
(* src/rover_example.cc builds.                                            *)
(***************************************************************************)
EXTENDS Integers, Sequences, FiniteSets, TLC

(***************************************************************************)
(* Bounds of the model.                                                    *)
(***************************************************************************)
\* land() is called with coordinates in -MaxCoord..MaxCoord, or with one
\* coordinate at an end of int32_t and the other zero; an execute call is
\* explored while it leaves the rover in that square or next to such an end.
MaxCoord == 1
\* execute() is called with command strings of at most MaxCmdLen characters.
MaxCmdLen == 2
\* FenceSensor reports (x, y) safe when |x| + |y| <= FenceRadius.
FenceRadius == 1
\* A builder is given at most MaxSensors sensors.
MaxSensors == 2
\* Reachability of a state of the rover is searched over sequences of at
\* most ReachDepth calls.
ReachDepth == 2

(***************************************************************************)
(* Sensors: Sensor::is_safe(x, y).  TrueSensor and FalseSensor are the     *)
(* two sensors of src/rover_example.cc; FenceSensor is a sensor that is a  *)
(* fixed predicate on the coordinates.                                     *)
(***************************************************************************)
Sensors == {"TrueSensor", "FalseSensor", "FenceSensor"}

Sensor_is_safe(sensor, x, y) ==
    CASE sensor = "TrueSensor"  -> TRUE
      [] sensor = "FalseSensor" -> FALSE
      [] sensor = "FenceSensor" ->
            /\ x \in (-FenceRadius)..FenceRadius
            /\ y \in (-FenceRadius)..FenceRadius
            /\ (IF x < 0 THEN -x ELSE x) + (IF y < 0 THEN -y ELSE y) <= FenceRadius

(***************************************************************************)
(* Coordinates                                                             *)
(***************************************************************************)
\* using coordinate_t = int32_t: the least and the greatest coordinate.
INT32_MAX == 2147483647
INT32_MIN == -2147483647 - 1

Coordinates(x, y) == [x |-> x, y |-> y]

\* The sum a + b is not an int32_t: the signed addition a += b overflows,
\* which is undefined behaviour.
AddOverflows(a, b) ==
    \/ b > 0 /\ a > INT32_MAX - b
    \/ b < 0 /\ a < INT32_MIN - b

\* What a build makes of a signed addition that overflows:
\*   "wrap"  the sum modulo 2^32 (two's complement),
\*   "trap"  the process is aborted (-ftrapv, -fsanitize=undefined),
\*   "value" a value left by an optimiser that assumes that the addition
\*           does not overflow: any value of coordinate_t at all (a build
\*           at -O2 leaves one more or one less than a constant of a
\*           branch not taken).
\* x is the value left by an overflowing x += other.x and y the value left
\* by an overflowing y += other.y: the two additions of operator+= are two
\* instructions, and each leaves a value of its own.
Wraps == [kind |-> "wrap", x |-> 0, y |-> 0]
Traps == [kind |-> "trap", x |-> 0, y |-> 0]
OverflowValues == INT32_MIN .. INT32_MAX
OverflowOutcomes ==
    {Wraps, Traps} \cup [kind : {"value"}, x : OverflowValues, y : OverflowValues]

\* a + b modulo 2^32, in -2^31..2^31-1, for a sum that overflows; computed
\* without leaving that range.
WrappedSum(a, b) ==
    IF b > 0
    THEN (a - INT32_MAX - 1) + (b - INT32_MAX - 1)
    ELSE (a + INT32_MAX + 1) + (b + INT32_MAX + 1)

\* a += b on coordinate_t, an overflow ending as kind says and, for
\* "value", leaving left.  For "trap" the addition does not end and a is as
\* it was.
int32_plus(a, b, kind, left) ==
    IF ~AddOverflows(a, b) THEN a + b
    ELSE CASE kind = "wrap"  -> WrappedSum(a, b)
           [] kind = "value" -> left
           [] kind = "trap"  -> a

\* Coordinates::operator+=: x += other.x, then y += other.y.  c is the
\* coordinates it leaves; aborted tells that an addition overflowed in a
\* build that traps, which ends the program.
Coordinates_plus(c, other, ub) ==
    [c |-> [x |-> int32_plus(c.x, other.x, ub.kind, ub.x),
            y |-> IF ub.kind = "trap" /\ AddOverflows(c.x, other.x) THEN c.y
                  ELSE int32_plus(c.y, other.y, ub.kind, ub.y)],
     aborted |-> ub.kind = "trap"
                   /\ (AddOverflows(c.x, other.x) \/ AddOverflows(c.y, other.y))]

\* Coordinates::is_safe
Coordinates_is_safe(c, sensor) == Sensor_is_safe(sensor, c.x, c.y)

\* operator<<(std::ostream&, const Coordinates&)
Coordinates_print(c) == "(" \o ToString(c.x) \o ", " \o ToString(c.y) \o ")"

(***************************************************************************)
(* enum class Direction and DirectionManager                               *)
(***************************************************************************)
NORTH == 0
EAST == 1
SOUTH == 2
WEST == 3
Direction == {NORTH, EAST, SOUTH, WEST}

DIRECTIONS_NO == 4

direction_move ==
    <<Coordinates(0, 1), Coordinates(1, 0), Coordinates(0, -1), Coordinates(-1, 0)>>

direction_name == <<"NORTH", "EAST", "SOUTH", "WEST">>

\* DirectionManager::get_next stepping through the directions backwards.
get_next_Backwards(d) == (d + DIRECTIONS_NO - 1) % DIRECTIONS_NO

\* DirectionManager::get_next
get_next(d) == (d + 1) % DIRECTIONS_NO

\* DirectionManager::get_move (C++ arrays are indexed from 0)
get_move(d) == direction_move[d + 1]

\* DirectionManager::get_name
get_name(d) == direction_name[d + 1]

(***************************************************************************)
(* Position                                                                *)
(***************************************************************************)
Position(coordinates, direction) ==
    [coordinates |-> coordinates, direction |-> direction]

\* Position::turn_right
turn_right(p) == [p EXCEPT !.direction = get_next(p.direction)]

\* The position p with the coordinates that Coordinates_plus left.
Moved(p, sum) == [p |-> [p EXCEPT !.coordinates = sum.c], aborted |-> sum.aborted]

\* Position::go_forward: coordinates += DirectionManager::get_move(direction).
\* p is the position it leaves, aborted as in Coordinates_plus.
go_forward(p, ub) ==
    Moved(p, Coordinates_plus(p.coordinates, get_move(p.direction), ub))

\* Position::turn_right on the position that go_forward left.
then_turn_right(moved) == [moved EXCEPT !.p = turn_right(@)]

\* Position::is_safe
Position_is_safe(p, sensor) == Coordinates_is_safe(p.coordinates, sensor)

\* operator<<(std::ostream&, const Position&)
Position_print(p) == Coordinates_print(p.coordinates) \o " " \o get_name(p.direction)

(***************************************************************************)
(* Actions.  An action is a record [kind, actions]; actions holds the      *)
(* children of a Compose (Compose::_actions) and is empty otherwise.       *)
(* Executing an action on a position p with a sensor list yields           *)
(*   p       : the caller's position when the call ends (the action works  *)
(*             on a reference, so it is what the caller sees also when the *)
(*             call ends by an exception),                                 *)
(*   thrown  : TRUE when the call ended by throw DangerousField(),         *)
(*   aborted : TRUE when an addition overflowed in a build that traps and  *)
(*             the program ended in the call,                              *)
(*   probes  : the calls Sensor::is_safe(x, y) made, in order.             *)
(* ub is what the build makes of a signed addition that overflows.         *)
(***************************************************************************)
rotate_left == [kind |-> "RotateLeft", actions |-> <<>>]
rotate_right == [kind |-> "RotateRight", actions |-> <<>>]
move_forward == [kind |-> "MoveForward", actions |-> <<>>]
move_backward == [kind |-> "MoveBackward", actions |-> <<>>]
compose(actions) == [kind |-> "Compose", actions |-> actions]

Probe(sensor, c) == [sensor |-> sensor, x |-> c.x, y |-> c.y]

\* for (const auto &sensor : sensors) if (!new_position.is_safe(sensor)) throw:
\* the index of the first sensor that reports new_position unsafe, 0 if none.
FirstUnsafe(new_position, sensors) ==
    IF \E i \in 1..Len(sensors) : ~Position_is_safe(new_position, sensors[i])
    THEN CHOOSE i \in 1..Len(sensors) :
            /\ ~Position_is_safe(new_position, sensors[i])
            /\ \A j \in 1..(i - 1) : Position_is_safe(new_position, sensors[j])
    ELSE 0

\* The program ended inside the action, before any sensor was asked.
Aborted(p) == [p |-> p, thrown |-> FALSE, aborted |-> TRUE, probes |-> <<>>]

\* The common tail of MoveForward::execute and MoveBackward::execute, given
\* what the steps of new_position left (moved): check new_position against
\* the sensors in list order, throw at the first one that reports it unsafe,
\* assign p = new_position when none does.
CheckAndCommit(p, moved, sensors) ==
    IF moved.aborted THEN Aborted(p)
    ELSE LET bad == FirstUnsafe(moved.p, sensors)
             asked == IF bad = 0 THEN Len(sensors) ELSE bad
         IN [p       |-> IF bad = 0 THEN moved.p ELSE p,
             thrown  |-> bad # 0,
             aborted |-> FALSE,
             probes  |-> [i \in 1..asked |-> Probe(sensors[i], moved.p.coordinates)]]

\* RotateLeft::execute with two turns instead of three.
RotateLeft_execute_TwoTurns(p, sensors, ub) ==
    [p |-> turn_right(turn_right(p)), thrown |-> FALSE, aborted |-> FALSE,
     probes |-> <<>>]

\* RotateLeft::execute
RotateLeft_execute(p, sensors, ub) ==
    [p |-> turn_right(turn_right(turn_right(p))), thrown |-> FALSE,
     aborted |-> FALSE, probes |-> <<>>]

\* RotateRight::execute checking the sensors as the moves do.
RotateRight_execute_AsksSensors(p, sensors, ub) ==
    CheckAndCommit(p, [p |-> turn_right(p), aborted |-> FALSE], sensors)

\* RotateRight::execute
RotateRight_execute(p, sensors, ub) ==
    [p |-> turn_right(p), thrown |-> FALSE, aborted |-> FALSE, probes |-> <<>>]

\* The caller's position is new_position whatever the sensors said.
InPlace(r, moved) == IF r.aborted THEN r ELSE [r EXCEPT !.p = moved.p]

\* MoveForward::execute moving p itself instead of a copy.
MoveForward_execute_InPlace(p, sensors, ub) ==
    InPlace(CheckAndCommit(p, go_forward(p, ub), sensors), go_forward(p, ub))

\* MoveForward::execute: new_position is a copy of p that goes forward.
MoveForward_execute(p, sensors, ub) ==
    CheckAndCommit(p, go_forward(p, ub), sensors)

\* MoveBackward::execute turning and moving p itself instead of a copy.
MoveBackward_execute_InPlace(p, sensors, ub) ==
    InPlace(CheckAndCommit(p,
                           then_turn_right(then_turn_right(
                               go_forward(turn_right(turn_right(p)), ub))),
                           sensors),
            then_turn_right(then_turn_right(go_forward(turn_right(turn_right(p)), ub))))

\* MoveBackward::execute without the two turns after the move.
MoveBackward_execute_NoTurnBack(p, sensors, ub) ==
    CheckAndCommit(p, go_forward(turn_right(turn_right(p)), ub), sensors)

\* MoveBackward::execute with one turn before the move and three after it.
MoveBackward_execute_QuarterTurn(p, sensors, ub) ==
    CheckAndCommit(p,
                   then_turn_right(then_turn_right(then_turn_right(
                       go_forward(turn_right(p), ub)))),
                   sensors)

\* MoveBackward::execute: new_position is a copy of p that turns right
\* twice, goes forward and turns right twice.
MoveBackward_execute(p, sensors, ub) ==
    CheckAndCommit(p,
                   then_turn_right(then_turn_right(
                       go_forward(turn_right(turn_right(p)), ub))),
                   sensors)

\* The call of the action that left r did not return: it threw
\* DangerousField or the program ended in it.
Ended(r) == r.thrown \/ r.aborted

\* What a Compose leaves when its child left r and did not return: the
\* child's outcome, after the probes made before it.
Compose_left(r, probes) == [r EXCEPT !.probes = probes \o @]

RECURSIVE Action_execute(_, _, _, _)
RECURSIVE Compose_execute_GoesOn(_, _, _, _, _, _)
RECURSIVE Compose_children(_, _, _, _, _, _)
RECURSIVE Compose_execute(_, _, _, _, _, _)

\* Compose::execute running the children that follow a failed child before
\* it lets the exception out.
Compose_execute_GoesOn(actions, i, p, sensors, probes, ub) ==
    IF i > Len(actions)
    THEN [p |-> p, thrown |-> FALSE, aborted |-> FALSE, probes |-> probes]
    ELSE LET r == Action_execute(actions[i], p, sensors, ub)
         IN IF r.aborted
            THEN Compose_left(r, probes)
            ELSE LET rest == Compose_execute_GoesOn(actions, i + 1, r.p, sensors,
                                                    probes \o r.probes, ub)
                 IN [rest EXCEPT !.thrown = ~rest.aborted /\ (r.thrown \/ rest.thrown)]

\* The loop of Compose::execute, as it is.
Compose_children(actions, i, p, sensors, probes, ub) ==
    IF i > Len(actions)
    THEN [p |-> p, thrown |-> FALSE, aborted |-> FALSE, probes |-> probes]
    ELSE LET r == Action_execute(actions[i], p, sensors, ub)
         IN IF Ended(r)
            THEN Compose_left(r, probes)
            ELSE Compose_children(actions, i + 1, r.p, sensors, probes \o r.probes, ub)

\* Compose::execute running its children on a copy of the position, which
\* it assigns to p only when every child has succeeded.
Compose_execute_RollsBack(actions, i, p, sensors, probes, ub) ==
    LET r == Compose_children(actions, i, p, sensors, probes, ub)
    IN IF r.thrown THEN [r EXCEPT !.p = p] ELSE r

\* Compose::execute, from child i on, with the probes made so far: the
\* children run in order on the same position; an exception of a child
\* leaves the loop at once, and so does the end of the program.
Compose_execute(actions, i, p, sensors, probes, ub) ==
    IF i > Len(actions)
    THEN [p |-> p, thrown |-> FALSE, aborted |-> FALSE, probes |-> probes]
    ELSE LET r == Action_execute(actions[i], p, sensors, ub)
         IN IF Ended(r)
            THEN Compose_left(r, probes)
            ELSE Compose_execute(actions, i + 1, r.p, sensors, probes \o r.probes, ub)

\* Action::execute, dispatched on the dynamic type of the action.
Action_execute(action, p, sensors, ub) ==
    CASE action.kind = "RotateLeft"   -> RotateLeft_execute(p, sensors, ub)
      [] action.kind = "RotateRight"  -> RotateRight_execute(p, sensors, ub)
      [] action.kind = "MoveForward"  -> MoveForward_execute(p, sensors, ub)
      [] action.kind = "MoveBackward" -> MoveBackward_execute(p, sensors, ub)
      [] action.kind = "Compose"      ->
            Compose_execute(action.actions, 1, p, sensors, <<>>, ub)

(***************************************************************************)
(* Rover.  The fields of class Rover are the variables landed, stopped,    *)
(* position, commands and sensors.  The other variables are the caller's:  *)
(* op is "ready" when it is about to make a call and names the call it     *)
(* has just made otherwise, and then before holds the fields of the rover  *)
(* when the call was made, command_list is the argument of execute,        *)
(* landing the arguments of land, raised the exception that left the       *)
(* call, probes the calls of Sensor::is_safe made during it and os the     *)
(* text written by operator<<, and overflow what the build made of the     *)
(* signed additions that overflowed during it.  op is "aborted" when the   *)
(* program has ended inside a call.                                        *)
(* The fields of class RoverBuilder are b_commands and b_sensors; written  *)
(* is the last action given to program_command for each character and      *)
(* added the sensors given to add_sensor, in order, over the builder's     *)
(* whole life.                                                             *)
(***************************************************************************)
VARIABLES landed, stopped, position, commands, sensors,
          op, before, command_list, landing, raised, probes, os, overflow,
          b_commands, b_sensors, written, added

rover == <<landed, stopped, position, commands, sensors>>
builder == <<b_commands, b_sensors, written, added>>
vars == <<landed, stopped, position, commands, sensors,
          op, before, command_list, landing, raised, probes, os, overflow,
          b_commands, b_sensors, written, added>>

\* The characters of the command strings: the commands programmed in
\* src/rover_example.cc.  Which of them are bound depends on the rover.
CommandNames == {"F", "B", "R", "L", "U", "X"}

CommandLists == UNION {[1..n -> CommandNames] : n \in 0..MaxCmdLen}

Range == (-MaxCoord)..MaxCoord

\* The coordinates given to land: those of the square around zero, and the
\* four with one coordinate at an end of int32_t.
Landings ==
    {Coordinates(x, y) : x \in Range, y \in Range}
        \cup {Coordinates(e, 0) : e \in {INT32_MIN, INT32_MAX}}
        \cup {Coordinates(0, e) : e \in {INT32_MIN, INT32_MAX}}

\* The position is in the square around zero.
Inside(p) == p.coordinates.x \in Range /\ p.coordinates.y \in Range

(***************************************************************************)
(* The outcomes of overflow that the search follows.  What an overflowing  *)
(* addition can leave is OverflowOutcomes: every value of coordinate_t.    *)
(* The search cannot draw from all of them and draws from a sample, as it  *)
(* draws the landings from a square: the sample bounds the search and says *)
(* nothing of the program.  The program reads a value left in two places   *)
(* only, the sensors' is_safe and the next addition, so the sample holds   *)
(* values that those tell apart: inside and outside the fence, next to an  *)
(* end of int32_t, and far from zero and from both ends.                   *)
(***************************************************************************)
\* The values around zero, one step beyond the square.
NearZero == (-(MaxCoord + 1))..(MaxCoord + 1)

\* The values at an end of int32_t and the few next to it.
NearEnd ==
    {INT32_MIN + d : d \in 0..(MaxCoord + 2)}
        \cup {INT32_MAX - d : d \in 0..(MaxCoord + 2)}

\* Some values far from zero and from both ends.
FarSample == {-10, 40, 101, 999, 2147483639}

ValuesSampled == NearZero \cup NearEnd \cup FarSample

\* The sample: the wrapped sum, the trap, and a value of the sample left
\* by each of the two additions.
OutcomesSampled ==
    {ub \in {Wraps, Traps} \cup [kind : {"value"}, x : ValuesSampled, y : ValuesSampled] :
        ub \in OverflowOutcomes}

\* The outcomes of the sample told apart by a call in which only the
\* additions to x overflow, and only those to y: the value left for the
\* other coordinate shows nowhere, and is taken to be zero.
SampledOfX == {ub \in OutcomesSampled : ub.y = 0}
SampledOfY == {ub \in OutcomesSampled : ub.x = 0}

\* An addition of a call made at p can overflow: a call makes a few steps
\* only, and they overflow only from a coordinate next to an end.
MayOverflow(p) == p.coordinates.x \in NearEnd \/ p.coordinates.y \in NearEnd

\* The outcomes of the sample that a call made at position p tells apart.
OutcomesSampledAt(p) ==
    CASE p.coordinates.x \in NearEnd /\ p.coordinates.y \in NearEnd -> OutcomesSampled
      [] p.coordinates.x \in NearEnd /\ p.coordinates.y \notin NearEnd -> SampledOfX
      [] p.coordinates.x \notin NearEnd /\ p.coordinates.y \in NearEnd -> SampledOfY
      [] OTHER -> {Wraps}

\* v is an end of int32_t or next to one.
AtEnd(v) == v >= INT32_MAX - 1 \/ v <= INT32_MIN + 1

\* The positions from which calls of execute are followed: those of the
\* square, and those on an axis at an end of int32_t.  A call that leaves
\* the rover elsewhere, by a step or by a value left, is not followed.
InRange(p) ==
    \/ Inside(p)
    \/ AtEnd(p.coordinates.x) /\ p.coordinates.y = 0
    \/ p.coordinates.x = 0 /\ AtEnd(p.coordinates.y)

\* The rover of src/rover_example.cc:29-37.
ExampleRover ==
    [commands |-> [c \in {"F", "B", "R", "L", "U"} |->
                     CASE c = "F" -> move_forward
                       [] c = "B" -> move_backward
                       [] c = "R" -> rotate_right
                       [] c = "L" -> rotate_left
                       [] c = "U" -> compose(<<rotate_right, rotate_right>>)],
     sensors |-> <<"TrueSensor", "TrueSensor">>]

\* The rover of src/rover_example.cc:63-66.
BrokenRover ==
    [commands |-> [c \in {"X"} |-> move_forward],
     sensors |-> <<"FalseSensor">>]

\* A rover built like the example rover, with a fence among its sensors and
\* a nested Compose that moves: turn right, two steps forward, turn left.
FencedRover ==
    [commands |-> [c \in {"F", "B", "R", "L", "U"} |->
                     CASE c = "F" -> move_forward
                       [] c = "B" -> move_backward
                       [] c = "R" -> rotate_right
                       [] c = "L" -> rotate_left
                       [] c = "U" -> compose(<<rotate_right,
                                               compose(<<move_forward, move_forward>>),
                                               rotate_left>>)],
     sensors |-> <<"TrueSensor", "FenceSensor">>]

Rovers == {ExampleRover, BrokenRover, FencedRover}

\* What the loop of Rover::execute leaves when the command that left r did
\* not return.
Rover_loop_left(r, asked) ==
    [position |-> r.p, stopped |-> FALSE, thrown |-> r.thrown, aborted |-> r.aborted,
     probes |-> asked \o r.probes]

RECURSIVE Rover_loop_NoBreak(_, _, _, _, _, _, _)

\* The loop of Rover::execute without the break at an unbound character.
Rover_loop_NoBreak(cmds, sens, list, i, p, asked, ub) ==
    IF i > Len(list)
    THEN [position |-> p, stopped |-> FALSE, thrown |-> FALSE, aborted |-> FALSE,
          probes |-> asked]
    ELSE IF list[i] \notin DOMAIN cmds
    THEN LET rest == Rover_loop_NoBreak(cmds, sens, list, i + 1, p, asked, ub)
         IN [rest EXCEPT !.stopped = ~rest.aborted]
    ELSE LET r == Action_execute(cmds[list[i]], p, sens, ub)
         IN IF Ended(r)
            THEN Rover_loop_left(r, asked)
            ELSE Rover_loop_NoBreak(cmds, sens, list, i + 1, r.p, asked \o r.probes, ub)

RECURSIVE Rover_loop(_, _, _, _, _, _, _)

\* The for loop of Rover::execute from character i on: an unbound character
\* sets stopped and breaks; thrown tells that a command threw DangerousField
\* out of the loop, aborted that the program ended in a command.
Rover_loop(cmds, sens, list, i, p, asked, ub) ==
    IF i > Len(list)
    THEN [position |-> p, stopped |-> FALSE, thrown |-> FALSE, aborted |-> FALSE,
          probes |-> asked]
    ELSE IF list[i] \notin DOMAIN cmds
    THEN [position |-> p, stopped |-> TRUE, thrown |-> FALSE, aborted |-> FALSE,
          probes |-> asked]
    ELSE LET r == Action_execute(cmds[list[i]], p, sens, ub)
         IN IF Ended(r)
            THEN Rover_loop_left(r, asked)
            ELSE Rover_loop(cmds, sens, list, i + 1, r.p, asked \o r.probes, ub)

\* Rover::execute working on a copy of the position that the catch block
\* throws away.
Rover_try_RollsBack(cmds, sens, list, p, ub) ==
    LET r == Rover_loop(cmds, sens, list, 1, p, <<>>, ub)
    IN IF r.thrown THEN [r EXCEPT !.stopped = TRUE, !.thrown = FALSE, !.position = p]
       ELSE r

\* catch (DangerousField& e) { stopped = true; } on what the loop left.
Rover_catch(r) ==
    IF r.thrown THEN [r EXCEPT !.stopped = TRUE, !.thrown = FALSE] ELSE r

\* try { ... } catch (DangerousField& e) { stopped = true; }
Rover_try(cmds, sens, list, p, ub) ==
    Rover_catch(Rover_loop(cmds, sens, list, 1, p, <<>>, ub))

\* The fields of a landed rover and the exception that leaves execute, when
\* the try block left r.
Rover_executed(cmds, sens, r) ==
    [landed |-> TRUE, stopped |-> r.stopped, position |-> r.position,
     commands |-> cmds, sensors |-> sens,
     raised |-> IF r.thrown THEN "DangerousField" ELSE "none",
     aborted |-> r.aborted, probes |-> r.probes]

\* Rover::execute without the test of landed.
Rover_execute_NoLandedTest(l, s, p, cmds, sens, list, ub) ==
    [Rover_executed(cmds, sens, Rover_try(cmds, sens, list, p, ub)) EXCEPT !.landed = l]

\* Rover::execute without stopped = false on entry.
Rover_execute_KeepsStopped(l, s, p, cmds, sens, list, ub) ==
    LET r == Rover_try(cmds, sens, list, p, ub)
    IN [landed |-> l, stopped |-> IF l THEN s \/ r.stopped ELSE s,
        position |-> IF l THEN r.position ELSE p,
        commands |-> cmds, sensors |-> sens,
        raised |-> IF l THEN "none" ELSE "RoverDidNotLand",
        aborted |-> l /\ r.aborted,
        probes |-> IF l THEN r.probes ELSE <<>>]

\* The action that std::map::operator[] inserts for a missing key: a null
\* std::shared_ptr<Action>.
NullAction == [kind |-> "null", actions |-> <<>>]

\* Rover::execute looking an unbound character up with commands[command]
\* before it stops, which inserts the character in the table.
Rover_execute_InsertsUnbound(l, s, p, cmds, sens, list, ub) ==
    IF l
    THEN LET missing == {list[i] : i \in 1..Len(list)} \ DOMAIN cmds
         IN [Rover_executed(cmds, sens, Rover_try(cmds, sens, list, p, ub))
                EXCEPT !.commands = [c \in (DOMAIN cmds) \cup missing |->
                                        IF c \in DOMAIN cmds THEN cmds[c] ELSE NullAction]]
    ELSE [landed |-> l, stopped |-> s, position |-> p,
          commands |-> cmds, sensors |-> sens,
          raised |-> "RoverDidNotLand", aborted |-> FALSE, probes |-> <<>>]

\* Rover::execute returning at once when the rover is stopped.
Rover_execute_RefusesWhenStopped(l, s, p, cmds, sens, list, ub) ==
    IF l /\ ~s
    THEN Rover_executed(cmds, sens, Rover_try(cmds, sens, list, p, ub))
    ELSE [landed |-> l, stopped |-> s, position |-> p,
          commands |-> cmds, sensors |-> sens,
          raised |-> IF l THEN "none" ELSE "RoverDidNotLand",
          aborted |-> FALSE, probes |-> <<>>]

\* Rover::execute: the fields and the exception it leaves; aborted tells
\* that the program ended in the call.
Rover_execute(l, s, p, cmds, sens, list, ub) ==
    IF l
    THEN Rover_executed(cmds, sens, Rover_try(cmds, sens, list, p, ub))
    ELSE [landed |-> l, stopped |-> s, position |-> p,
          commands |-> cmds, sensors |-> sens,
          raised |-> "RoverDidNotLand", aborted |-> FALSE, probes |-> <<>>]

\* Rover::land without stopped = false.
Rover_land_KeepsStopped(l, s, p, coordinates, direction) ==
    [landed |-> TRUE, stopped |-> s,
     position |-> Position(coordinates, direction), probes |-> <<>>]

\* Rover::land without landed = true.
Rover_land_NoLanded(l, s, p, coordinates, direction) ==
    [landed |-> l, stopped |-> FALSE,
     position |-> Position(coordinates, direction), probes |-> <<>>]

\* Rover::land: the fields it leaves.
Rover_land(l, s, p, coordinates, direction) ==
    [landed |-> TRUE, stopped |-> FALSE,
     position |-> Position(coordinates, direction), probes |-> <<>>]

\* operator<< of Rover without the test of stopped.
Rover_print_NoStopped(l, s, p) ==
    IF ~l THEN "unknown" ELSE Position_print(p)

\* operator<<(std::ostream&, const Rover&)
Rover_print(l, s, p) ==
    IF ~l THEN "unknown"
    ELSE Position_print(p) \o (IF s THEN " stopped" ELSE "")

\* The fields of the rover, as a record.
Fields(l, s, p, cmds, sens) ==
    [landed |-> l, stopped |-> s, position |-> p, commands |-> cmds, sensors |-> sens]

\* Rover::Rover, called by RoverBuilder::build; the builder is left with its
\* commands and without its sensors.
Init ==
    /\ \E r \in Rovers : commands = r.commands /\ sensors = r.sensors
    /\ b_commands = commands
    /\ b_sensors = <<>>
    /\ written = commands
    /\ added = sensors
    /\ landed = FALSE
    /\ stopped = FALSE
    /\ position = Position(Coordinates(0, 0), NORTH)
    /\ op = "ready"
    /\ before = Fields(landed, stopped, position, commands, sensors)
    /\ command_list = <<>>
    /\ landing = <<>>
    /\ raised = "none"
    /\ probes = <<>>
    /\ os = ""
    /\ overflow = Wraps

\* rover.land({x, y}, direction)
Land ==
    /\ op = "ready"
    /\ \E coordinates \in Landings, direction \in Direction :
        LET r == Rover_land(landed, stopped, position, coordinates, direction)
        IN /\ landed' = r.landed
           /\ stopped' = r.stopped
           /\ position' = r.position
           /\ UNCHANGED <<commands, sensors>>
           /\ UNCHANGED builder
           /\ op' = "land"
           /\ before' = Fields(landed, stopped, position, commands, sensors)
           /\ command_list' = <<>>
           /\ landing' = <<Position(coordinates, direction)>>
           /\ raised' = "none"
           /\ probes' = r.probes
           /\ os' = ""
           /\ overflow' = Wraps

\* The call rover.execute(list) left r, in a build whose overflows end as
\* ub says and where a wrapping build would have left wrapped.  An outcome
\* other than wrapping is told apart only in a call that it changes.  When
\* the program ends in the call the rover is gone with it: its fields are
\* left as they were at the call.
Executes(list, ub, r, wrapped) ==
    /\ ub = Wraps \/ r # wrapped
    /\ InRange(r.position)
    /\ IF r.aborted
       THEN UNCHANGED rover /\ op' = "aborted"
       ELSE /\ landed' = r.landed
            /\ stopped' = r.stopped
            /\ position' = r.position
            /\ commands' = r.commands
            /\ sensors' = r.sensors
            /\ op' = "execute"
    /\ UNCHANGED builder
    /\ before' = Fields(landed, stopped, position, commands, sensors)
    /\ command_list' = list
    /\ landing' = <<>>
    /\ raised' = r.raised
    /\ probes' = r.probes
    /\ os' = ""
    /\ overflow' = ub

\* The outcomes of the sample told apart by a call which a build that
\* traps leaves as trapped: an addition of the call overflows exactly when
\* that build aborts in it, all builds agreeing up to the first overflow.
OutcomesIn(trapped, p) ==
    IF MayOverflow(p) /\ trapped.aborted THEN OutcomesSampledAt(p) ELSE {Wraps}

\* rover.execute(list).  ub is what the build makes of the additions that
\* overflow during the call, drawn from the sample.
Execute ==
    /\ op = "ready"
    /\ \E list \in CommandLists :
       \E ub \in OutcomesIn(Rover_execute(landed, stopped, position, commands, sensors,
                                          list, Traps), position) :
          Executes(list, ub,
                   Rover_execute(landed, stopped, position, commands, sensors, list, ub),
                   Rover_execute(landed, stopped, position, commands, sensors, list,
                                 Wraps))

\* os << rover
Show ==
    /\ op = "ready"
    /\ UNCHANGED rover
    /\ UNCHANGED builder
    /\ op' = "show"
    /\ before' = Fields(landed, stopped, position, commands, sensors)
    /\ command_list' = <<>>
    /\ landing' = <<>>
    /\ raised' = "none"
    /\ probes' = <<>>
    /\ os' = Rover_print(landed, stopped, position)
    /\ overflow' = Wraps

\* The call has returned (or its exception has been handled, as in
\* src/rover_example.cc:42-46) and the caller goes on to its next call.
Return ==
    /\ op \notin {"ready", "aborted"}
    /\ UNCHANGED rover
    /\ UNCHANGED builder
    /\ op' = "ready"
    /\ before' = Fields(landed, stopped, position, commands, sensors)
    /\ command_list' = <<>>
    /\ landing' = <<>>
    /\ raised' = "none"
    /\ probes' = <<>>
    /\ os' = ""
    /\ overflow' = Wraps

Next == Land \/ Execute \/ Show \/ Return

Spec == Init /\ [][Next]_vars

(***************************************************************************)
(* RoverBuilder.  BuilderSpec starts from a new RoverBuilder and makes the *)
(* calls program_command, add_sensor and build on it; the rover variables  *)
(* hold the rover returned by the last build (before the first build: a    *)
(* rover with no command and no sensor).                                   *)
(***************************************************************************)
\* The characters and the actions given to program_command.
BuilderNames == {"F", "X"}

BuilderActions == {move_forward, rotate_right, compose(<<rotate_right, rotate_right>>)}

\* RoverBuilder::program_command: commands[name] = std::move(action)
RoverBuilder_program_command(cmds, name, action) ==
    [c \in (DOMAIN cmds) \cup {name} |-> IF c = name THEN action ELSE cmds[c]]

\* RoverBuilder::add_sensor: sensors.push_back(std::move(sensor))
RoverBuilder_add_sensor(sens, sensor) == Append(sens, sensor)

\* RoverBuilder::build: return {commands, std::move(sensors)}.  The rover is
\* constructed from a copy of commands and from sensors moved; the vector
\* moved from is left empty.
RoverBuilder_build(cmds, sens) ==
    [rover |-> Fields(FALSE, FALSE, Position(Coordinates(0, 0), NORTH), cmds, sens),
     b_commands |-> cmds,
     b_sensors |-> <<>>]

\* RoverBuilder()
BuilderInit ==
    /\ b_commands = <<>>
    /\ b_sensors = <<>>
    /\ written = <<>>
    /\ added = <<>>
    /\ landed = FALSE
    /\ stopped = FALSE
    /\ position = Position(Coordinates(0, 0), NORTH)
    /\ commands = <<>>
    /\ sensors = <<>>
    /\ op = "ready"
    /\ before = Fields(landed, stopped, position, commands, sensors)
    /\ command_list = <<>>
    /\ landing = <<>>
    /\ raised = "none"
    /\ probes = <<>>
    /\ os = ""
    /\ overflow = Wraps

\* builder.program_command(name, action)
ProgramCommand ==
    /\ op = "ready"
    /\ \E name \in BuilderNames, action \in BuilderActions :
        /\ b_commands' = RoverBuilder_program_command(b_commands, name, action)
        /\ written' = [c \in (DOMAIN written) \cup {name} |->
                          IF c = name THEN action ELSE written[c]]
    /\ op' = "program_command"
    /\ UNCHANGED <<rover, b_sensors, added, before, command_list, landing, raised, probes, os, overflow>>

\* builder.add_sensor(sensor)
AddSensor ==
    /\ op = "ready"
    /\ Len(added) < MaxSensors
    /\ \E sensor \in Sensors :
        /\ b_sensors' = RoverBuilder_add_sensor(b_sensors, sensor)
        /\ added' = Append(added, sensor)
    /\ op' = "add_sensor"
    /\ UNCHANGED <<rover, b_commands, written, before, command_list, landing, raised, probes, os, overflow>>

\* builder.build()
Build ==
    /\ op = "ready"
    /\ LET r == RoverBuilder_build(b_commands, b_sensors)
       IN /\ landed' = r.rover.landed
          /\ stopped' = r.rover.stopped
          /\ position' = r.rover.position
          /\ commands' = r.rover.commands
          /\ sensors' = r.rover.sensors
          /\ b_commands' = r.b_commands
          /\ b_sensors' = r.b_sensors
    /\ op' = "build"
    /\ before' = Fields(landed, stopped, position, commands, sensors)
    /\ UNCHANGED <<written, added, command_list, landing, raised, probes, os, overflow>>

BuilderNext == ProgramCommand \/ AddSensor \/ Build \/ Return

BuilderSpec == BuilderInit /\ [][BuilderNext]_vars

(***************************************************************************)
(* The behaviour the specification describes, stated on its own terms:     *)
(* the unit vector of a heading, the effect of a leaf action, the leaf     *)
(* actions of a command string and their interpretation with stop at the   *)
(* first failure.                                                          *)
(***************************************************************************)
UnitVector(d) ==
    CASE d = NORTH -> [x |-> 0, y |-> 1]
      [] d = EAST  -> [x |-> 1, y |-> 0]
      [] d = SOUTH -> [x |-> 0, y |-> -1]
      [] d = WEST  -> [x |-> -1, y |-> 0]

Successor(d) ==
    CASE d = NORTH -> EAST [] d = EAST -> SOUTH [] d = SOUTH -> WEST [] d = WEST -> NORTH

Predecessor(d) ==
    CASE d = NORTH -> WEST [] d = EAST -> NORTH [] d = SOUTH -> EAST [] d = WEST -> SOUTH

IsMove(leaf) == leaf \in {"MoveForward", "MoveBackward"}

\* The cell (c.x + dx, c.y + dy) is a coordinate: both sums are int32_t.
IsCell(c, dx, dy) == ~AddOverflows(c.x, dx) /\ ~AddOverflows(c.y, dy)

\* The cell (c.x + dx, c.y + dy).  Where it is no coordinate the
\* specification names no cell, and the candidate of a move is the
\* coordinate that the rover's own addition leaves (ub).
Cell(c, dx, dy, ub) ==
    IF IsCell(c, dx, dy) THEN [x |-> c.x + dx, y |-> c.y + dy]
    ELSE Coordinates_plus(c, [x |-> dx, y |-> dy], ub).c

\* The position a leaf action asks for.
Target(leaf, p, ub) ==
    LET u == UnitVector(p.direction)
        c == p.coordinates
    IN CASE leaf = "RotateRight"  -> [p EXCEPT !.direction = Successor(p.direction)]
         [] leaf = "RotateLeft"   -> [p EXCEPT !.direction = Predecessor(p.direction)]
         [] leaf = "MoveForward"  -> [p EXCEPT !.coordinates = Cell(c, u.x, u.y, ub)]
         [] leaf = "MoveBackward" -> [p EXCEPT !.coordinates = Cell(c, -u.x, -u.y, ub)]

AllSafe(c, sens) == \A i \in 1..Len(sens) : Sensor_is_safe(sens[i], c.x, c.y)

\* A leaf fails when it is an unbound character or a move to a cell that
\* some sensor reports unsafe.
Fails(leaf, p, sens, ub) ==
    \/ leaf = "Unbound"
    \/ IsMove(leaf) /\ ~AllSafe(Target(leaf, p, ub).coordinates, sens)

RECURSIVE Leaves(_)
RECURSIVE LeavesOfAll(_)

\* A Compose flattened, in order.
Leaves(action) ==
    IF action.kind = "Compose" THEN LeavesOfAll(action.actions) ELSE <<action.kind>>

LeavesOfAll(actions) ==
    IF actions = <<>> THEN <<>> ELSE Leaves(Head(actions)) \o LeavesOfAll(Tail(actions))

RECURSIVE Program(_, _)

\* The leaves of a command string; an unbound character is the leaf "Unbound".
Program(cmds, list) ==
    IF list = <<>> THEN <<>>
    ELSE (IF Head(list) \in DOMAIN cmds THEN Leaves(cmds[Head(list)]) ELSE <<"Unbound">>)
         \o Program(cmds, Tail(list))

RECURSIVE Interpret(_, _, _, _)

\* Apply the leaves in order up to the first one that fails.
Interpret(leaves, p, sens, ub) ==
    IF leaves = <<>> THEN [position |-> p, halted |-> FALSE]
    ELSE IF Fails(Head(leaves), p, sens, ub) THEN [position |-> p, halted |-> TRUE]
    ELSE Interpret(Tail(leaves), Target(Head(leaves), p, ub), sens, ub)

\* What the specification expects of the execute call just made.
Expected ==
    Interpret(Program(before.commands, command_list), before.position,
              before.sensors, overflow)

Executed == op = "execute"

(***************************************************************************)
(* Claims                                                                  *)
(***************************************************************************)

\* C1: execute on a rover that has not landed fails with RoverDidNotLand,
\* whatever the command string, and changes no field of the rover: landed
\* and stopped stay false, position, command table and sensor list are as
\* they were.
C1_UnlandedExecuteFails ==
    (Executed /\ ~before.landed) =>
        /\ raised = "RoverDidNotLand"
        /\ ~landed /\ ~stopped
        /\ Fields(landed, stopped, position, commands, sensors) = before

\* An unlanded rover was given a bound command that would have moved it.
C1_Witness ==
    /\ Executed /\ ~before.landed
    /\ command_list = <<"F">> /\ "F" \in DOMAIN commands
    /\ raised = "RoverDidNotLand"

\* C2: execute on a landed rover applies the characters left to right and
\* halts at the first unbound character or failing move; the final position
\* is the start position changed by exactly the leaf actions (Compose
\* flattened, in order) before that point, and by nothing after it.
C2_StopsAtFirstFailure ==
    (Executed /\ before.landed) => position = Expected.position

\* The string halted at an unbound first character although the next
\* character is bound and would have changed the position.
C2_Witness ==
    /\ Executed /\ before.landed
    /\ Len(command_list) = 2
    /\ command_list[1] \notin DOMAIN commands
    /\ command_list[2] \in DOMAIN commands
    /\ LET r == Action_execute(commands[command_list[2]], before.position, sensors,
                               overflow)
       IN ~r.thrown /\ r.p # before.position
    /\ position = before.position

\* C3: after execute on a landed rover, stopped is true exactly when the
\* call halted early (unbound character or failing move); a stopped flag
\* left by an earlier call is cleared on entry.
C3_StoppedIffHalted ==
    (Executed /\ before.landed) => (stopped <=> Expected.halted)

\* A stopped rover executed a string whose every character succeeded, and
\* is no longer stopped.
C3_Witness ==
    /\ Executed /\ before.landed /\ before.stopped
    /\ command_list # <<>>
    /\ ~Expected.halted
    /\ ~stopped

\* C4: with sensors that are fixed predicates on coordinates, whenever
\* execute changes the rover's coordinate, the new coordinate is reported
\* safe by every sensor of the rover.
C4_MovesOnlyToSafeCells ==
    (Executed /\ position.coordinates # before.position.coordinates) =>
        \A i \in 1..Len(sensors) :
            Sensor_is_safe(sensors[i], position.coordinates.x, position.coordinates.y)

\* A rover landed on a cell that a sensor reports unsafe has moved off it, to
\* a cell that every sensor reports safe.
C4_Witness ==
    /\ Executed /\ position.coordinates # before.position.coordinates
    /\ ~AllSafe(before.position.coordinates, sensors)
    /\ AllSafe(position.coordinates, sensors)

\* The first character of the string just executed is bound to a move whose
\* target some sensor reports unsafe.
FirstIsUnsafeMove ==
    /\ Executed /\ before.landed
    /\ command_list # <<>> /\ Head(command_list) \in DOMAIN commands
    /\ IsMove(commands[Head(command_list)].kind)
    /\ ~AllSafe(Target(commands[Head(command_list)].kind, before.position,
                       overflow).coordinates,
                sensors)

\* C5: a MoveForward or MoveBackward whose target some sensor reports unsafe
\* fails with DangerousField and leaves the position it was given as it was,
\* coordinate and heading; the rover that executed it stands where it stood.
\* The first part calls the action itself, on the position and the sensors
\* that the rover has between two calls, once for each outcome of the
\* sample: next to an end of int32_t the target is the cell that the
\* overflowing addition leaves.  The second part is the move made through
\* Rover::execute.
C5_FailedMoveLeavesPosition ==
    /\ (op = "ready") =>
          \A c \in DOMAIN commands, ub \in OutcomesSampledAt(position) :
             LET r == Action_execute(commands[c], position, sensors, ub)
             IN (IsMove(commands[c].kind)
                   /\ ~r.aborted
                   /\ ~AllSafe(Target(commands[c].kind, position, ub).coordinates, sensors))
                => (r.thrown /\ r.p = position)
    /\ FirstIsUnsafeMove => (position = before.position /\ stopped)

\* A MoveBackward failed on a rover standing at the least y and heading
\* north: the addition overflowed and left a value that a sensor reports
\* unsafe.
C5_Witness ==
    /\ FirstIsUnsafeMove
    /\ commands[Head(command_list)].kind = "MoveBackward"
    /\ position = before.position /\ stopped
    /\ position.coordinates.y = INT32_MIN /\ position.direction = NORTH
    /\ overflow.kind = "value" /\ overflow.y \in FarSample

\* No DangerousField leaves a call of Rover::execute, whether the call
\* returns or the program ends in it.
DangerousFieldIsCaught ==
    (op \in {"execute", "aborted"}) => raised \in {"none", "RoverDidNotLand"}

\* C6: DangerousField never leaves Rover::execute: on a landed rover every
\* call of execute returns normally, and the only exception a call raises
\* is RoverDidNotLand, exactly when the rover has not landed.
C6_LandedExecuteReturns ==
    (op \in {"execute", "aborted"}) =>
        /\ before.landed => (op = "execute" /\ raised = "none")
        /\ ~before.landed => (op = "execute" /\ raised = "RoverDidNotLand")

\* C7: land(c, d) succeeds in every state without asking any sensor, and
\* leaves landed = true, stopped = false and position = (c, d).
C7_LandSetsPosition ==
    (op = "land") =>
        /\ raised = "none" /\ probes = <<>>
        /\ landed /\ ~stopped
        /\ position = landing[1]

\* A stopped rover has landed again, elsewhere, on a cell a sensor reports
\* unsafe.
C7_Witness ==
    /\ op = "land"
    /\ before.landed /\ before.stopped
    /\ position # before.position
    /\ ~AllSafe(position.coordinates, sensors)
    /\ landed /\ ~stopped

DirectionName(d) ==
    CASE d = NORTH -> "NORTH" [] d = EAST -> "EAST" [] d = SOUTH -> "SOUTH" [] d = WEST -> "WEST"

\* "(x, y) DIRNAME"
PositionText(p) ==
    "(" \o ToString(p.coordinates.x) \o ", " \o ToString(p.coordinates.y) \o ") "
        \o DirectionName(p.direction)

\* C8: the display of the rover is "unknown" exactly when it has not landed,
\* and otherwise "(x, y) DIRNAME", followed by " stopped" exactly when the
\* stopped flag is set; producing it changes no field of the rover.
C8_Display ==
    LET text == Rover_print(landed, stopped, position)
    IN /\ (text = "unknown") <=> ~landed
       /\ (landed /\ stopped) => text = PositionText(position) \o " stopped"
       /\ (landed /\ ~stopped) => text = PositionText(position)
       /\ (op = "show") =>
            /\ os = text
            /\ Fields(landed, stopped, position, commands, sensors) = before

\* The display of src/rover_example.cc:69.
C8_Witness ==
    /\ op = "show"
    /\ os = "(-1, -1) WEST stopped"

\* The string given to execute is one character bound to MoveBackward.
OneMoveBackward ==
    /\ op \in {"execute", "aborted"} /\ before.landed
    /\ Len(command_list) = 1 /\ command_list[1] \in DOMAIN commands
    /\ commands[command_list[1]].kind = "MoveBackward"

\* C9: a successful MoveBackward on (c, d) yields (c - unitVector(d), d),
\* and the coordinate its sensors are asked about is c - unitVector(d), for
\* every heading d and every coordinate c, those at the ends of int32_t
\* included.
C9_MoveBackward ==
    OneMoveBackward =>
        LET c == before.position.coordinates
            u == UnitVector(before.position.direction)
            t == [x |-> c.x - u.x, y |-> c.y - u.y]
        IN /\ op = "execute"
           /\ IsCell(c, -u.x, -u.y)
           /\ \A i \in 1..Len(probes) : probes[i].x = t.x /\ probes[i].y = t.y
           /\ sensors # <<>> => probes # <<>>
           /\ ~stopped => position = [coordinates |-> t,
                                      direction |-> before.position.direction]

\* A fenced rover moved backward.
C9_Witness ==
    /\ OneMoveBackward
    /\ ~stopped /\ position # before.position
    /\ \E i \in 1..Len(probes) : probes[i].sensor = "FenceSensor"

\* The string given to execute is MoveForward, MoveBackward on a rover all
\* of whose sensors report every coordinate safe.
ForwardThenBackward ==
    /\ op \in {"execute", "aborted"} /\ before.landed
    /\ Len(command_list) = 2
    /\ \A i \in 1..2 : command_list[i] \in DOMAIN commands
    /\ commands[command_list[1]].kind = "MoveForward"
    /\ commands[command_list[2]].kind = "MoveBackward"
    /\ \A i \in 1..Len(sensors) : sensors[i] = "TrueSensor"

\* C10: with sensors that report every coordinate safe, MoveForward followed
\* by MoveBackward returns the position to the coordinate and the heading it
\* started from, for every starting position, those at the ends of int32_t
\* included.
C10_ForwardBackward ==
    ForwardThenBackward => (op = "execute" /\ position = before.position /\ ~stopped)

\* Both moves were made: each asked every sensor.
C10_Witness ==
    /\ ForwardThenBackward
    /\ sensors # <<>>
    /\ Len(probes) = 2 * Len(sensors)
    /\ probes[1].x # before.position.coordinates.x
    /\ position = before.position

\* The string just executed is two characters bound to actions of the
\* kinds first and second.
ExecutedPair(first, second) ==
    /\ Executed /\ before.landed
    /\ Len(command_list) = 2
    /\ \A i \in 1..2 : command_list[i] \in DOMAIN commands
    /\ commands[command_list[1]].kind = first
    /\ commands[command_list[2]].kind = second

\* C11: RotateLeft then RotateRight, and RotateRight then RotateLeft, leave
\* the heading and the coordinate as they were, on every heading.
C11_RotateLeftInvertsRotateRight ==
    (ExecutedPair("RotateLeft", "RotateRight") \/ ExecutedPair("RotateRight", "RotateLeft"))
        => (position = before.position /\ ~stopped)

\* A rover heading NORTH turned left (to WEST, across the end of the enum)
\* and right again.
C11_Witness ==
    /\ ExecutedPair("RotateLeft", "RotateRight")
    /\ before.position.direction = NORTH
    /\ Action_execute(rotate_left, before.position, sensors, overflow).p.direction = WEST
    /\ position = before.position

\* The string just executed is one character bound to RotateRight.
OneRotateRight ==
    /\ Executed /\ before.landed
    /\ Len(command_list) = 1 /\ command_list[1] \in DOMAIN commands
    /\ commands[command_list[1]].kind = "RotateRight"

\* C12: the successor of a direction is again one of NORTH, EAST, SOUTH,
\* WEST, differs from it, follows the order NORTH, EAST, SOUTH, WEST, NORTH,
\* and four successor steps return to the direction; the rover's heading
\* is never any other value.
C12_SuccessorIsCyclic ==
    LET d == position.direction
    IN /\ d \in Direction
       /\ get_next(d) \in Direction
       /\ get_next(d) # d
       /\ get_next(d) = Successor(d)
       /\ get_next(get_next(get_next(get_next(d)))) = d
       /\ OneRotateRight => d = Successor(before.position.direction)

\* A rover heading WEST turned right and heads NORTH.
C12_Witness ==
    /\ OneRotateRight
    /\ before.position.direction = WEST
    /\ position.direction = NORTH

\* C13: every build() returns a rover that has not landed and is not
\* stopped, whose command table is the last binding written for each
\* character and whose sensor list is the sequence of all the sensors added
\* to the builder so far, in the order of addition.
C13_BuildReturnsAccumulated ==
    (op = "build") =>
        /\ ~landed /\ ~stopped
        /\ commands = written
        /\ sensors = added

\* The first character of the string just executed is bound to a Compose.
FirstIsCompose ==
    /\ Executed /\ before.landed
    /\ command_list # <<>> /\ Head(command_list) \in DOMAIN commands
    /\ commands[Head(command_list)].kind = "Compose"

\* What the specification expects of the Compose alone.
ExpectedOfCompose ==
    Interpret(Leaves(commands[Head(command_list)]), before.position, sensors, overflow)

\* C14: when a child of a Compose fails, no later child of it (or of an
\* enclosing Compose) and no later character is applied, no sensor is asked
\* again, and the position keeps the effects of the children applied before
\* the failing one.
C14_ComposeFailsFast ==
    (FirstIsCompose /\ ExpectedOfCompose.halted) =>
        LET r == Action_execute(commands[Head(command_list)], before.position, sensors,
                                overflow)
        IN /\ r.thrown
           /\ stopped
           /\ position = ExpectedOfCompose.position
           /\ probes = r.probes
           /\ ~AllSafe([x |-> probes[Len(probes)].x, y |-> probes[Len(probes)].y], sensors)

\* The second move of the inner Compose failed after a turn and a step; the
\* character that follows the Compose is bound and would have succeeded.
C14_Witness ==
    /\ FirstIsCompose /\ ExpectedOfCompose.halted
    /\ Len(command_list) = 2 /\ command_list[2] \in DOMAIN commands
    /\ ~Action_execute(commands[command_list[2]], position, sensors, overflow).thrown
    /\ Action_execute(commands[command_list[2]], position, sensors, overflow).p # position
    /\ position.coordinates # before.position.coordinates
    /\ position.direction # before.position.direction
    /\ stopped

\* The string just executed is one character bound to a Compose.
OneCompose == FirstIsCompose /\ Len(command_list) = 1

\* C15 as claimed: a Compose either applies all of its children or leaves
\* the position as it was before the Compose started.
C15_ComposeIsAtomic ==
    OneCompose => (~stopped \/ position = before.position)

\* C15 as the code has it: a Compose either applies all of its children, or
\* stops at the first child that fails and leaves the position as the
\* children before that one made it; nothing is rolled back.
C15_ComposeKeepsPrefix ==
    OneCompose =>
        /\ stopped <=> ExpectedOfCompose.halted
        /\ position = ExpectedOfCompose.position
        /\ stopped =>
             \E n \in 0..(Len(Leaves(commands[Head(command_list)])) - 1) :
                /\ position = Interpret(SubSeq(Leaves(commands[Head(command_list)]), 1, n),
                                        before.position, <<>>, overflow).position
                /\ Fails(Leaves(commands[Head(command_list)])[n + 1], position, sensors,
                         overflow)

\* A Compose failed and left the rover elsewhere than it started.
C15_Witness ==
    /\ OneCompose
    /\ stopped
    /\ position # before.position

\* The states of the rover state machine.
ModeOf(f) ==
    IF ~f.landed THEN "Unlanded"
    ELSE IF f.stopped THEN "Landed-stopped" ELSE "Landed-running"

\* The fields of the rover f after land({x, y}, d).
AfterLand(f, x, y, d) ==
    LET r == Rover_land(f.landed, f.stopped, f.position, Coordinates(x, y), d)
    IN [f EXCEPT !.landed = r.landed, !.stopped = r.stopped, !.position = r.position]

\* The fields of the rover f after execute(list), in a build that wraps.
AfterExecute(f, list) ==
    LET r == Rover_execute(f.landed, f.stopped, f.position, f.commands, f.sensors,
                           list, Wraps)
    IN [f EXCEPT !.landed = r.landed, !.stopped = r.stopped, !.position = r.position]

RECURSIVE CanReach(_, _, _)

\* Some sequence of at most n calls of land and execute takes the rover f
\* to the state mode.
CanReach(f, mode, n) ==
    \/ ModeOf(f) = mode
    \/ /\ n > 0
       /\ \/ \E x \in Range, y \in Range, d \in Direction :
                CanReach(AfterLand(f, x, y, d), mode, n - 1)
          \/ \E list \in CommandLists :
                /\ InRange(AfterExecute(f, list).position)
                /\ CanReach(AfterExecute(f, list), mode, n - 1)

Current == Fields(landed, stopped, position, commands, sensors)

\* C16 as claimed: from every reachable state each of Unlanded,
\* Landed-running and Landed-stopped can be reached again by further calls
\* of land and execute (here: by at most ReachDepth of them).
C16_AllStatesRevisitable ==
    (op = "ready") =>
        \A mode \in {"Unlanded", "Landed-running", "Landed-stopped"} :
            CanReach(Current, mode, ReachDepth)

\* C16 as the code has it: no state is terminal, Landed-running and
\* Landed-stopped can be reached again from every reachable state, and no
\* call takes a rover that has landed back to Unlanded.
C16_LandedStatesRevisitable ==
    /\ (op = "ready") =>
          /\ CanReach(Current, "Landed-running", 1)
          /\ CanReach(Current, "Landed-stopped", ReachDepth)
    /\ before.landed => landed

\* A stopped rover that can run again by one call, and that no call takes
\* back to Unlanded.
C16_Witness ==
    /\ op = "ready"
    /\ landed /\ stopped
    /\ CanReach(Current, "Landed-running", 1)
    /\ ~CanReach(Current, "Unlanded", 1)

\* The string just executed is k >= 1 times one character bound to
\* MoveForward.
ForwardRun ==
    /\ Executed /\ before.landed
    /\ command_list # <<>>
    /\ \A i \in 1..Len(command_list) : command_list[i] = command_list[1]
    /\ command_list[1] \in DOMAIN commands
    /\ commands[command_list[1]].kind = "MoveForward"

\* There is a cell n steps ahead of position p.
IsAhead(p, n) ==
    LET u == UnitVector(p.direction)
    IN IsCell(p.coordinates, n * u.x, n * u.y)

\* The cell n steps ahead of position p.
Ahead(p, n) ==
    LET u == UnitVector(p.direction)
    IN [x |-> p.coordinates.x + n * u.x, y |-> p.coordinates.y + n * u.y]

\* The n-th cell ahead of p is a cell that every sensor reports safe.
SafeCellAhead(p, n, sens) == IsAhead(p, n) /\ AllSafe(Ahead(p, n), sens)

\* The number N of consecutive safe cells ahead of p, counted up to k.
SafeAhead(p, sens, k) ==
    CHOOSE n \in 0..k :
        /\ \A i \in 1..n : SafeCellAhead(p, i, sens)
        /\ n < k => ~SafeCellAhead(p, n + 1, sens)

\* C17: with N safe cells ahead of the rover and an unsafe one after them,
\* k > N characters F leave the rover N cells ahead, heading unchanged,
\* stopped; k <= N characters F leave it k cells ahead, not stopped.  The
\* cells the claim names are coordinates: the k cells ahead when all are
\* safe, the N safe cells and the unsafe one after them otherwise.
C17_AdvancesToLastSafeCell ==
    LET k == Len(command_list)
        n == SafeAhead(before.position, sensors, k)
    IN (ForwardRun /\ (n = k \/ IsAhead(before.position, n + 1))) =>
           /\ position = [coordinates |-> Ahead(before.position, n),
                          direction |-> before.position.direction]
           /\ stopped <=> n < k

\* The rover advanced one cell or more and stopped before an unsafe one.
C17_Witness ==
    /\ ForwardRun
    /\ SafeAhead(before.position, sensors, Len(command_list)) \in 1..(Len(command_list) - 1)
    /\ position.coordinates # before.position.coordinates
    /\ stopped

\* The string just executed is one character bound to an action of the
\* kind given.
ExecutedOne(kind) ==
    /\ Executed /\ before.landed
    /\ Len(command_list) = 1 /\ command_list[1] \in DOMAIN commands
    /\ commands[command_list[1]].kind = kind

\* C18: RotateLeft and RotateRight succeed on every position with every
\* sensor list, also one that reports every coordinate unsafe and on an
\* unsafe cell, change the heading, keep the coordinate and ask no sensor;
\* a successful MoveForward or MoveBackward keeps the heading.
C18_RotationsOnlyTurn ==
    /\ \A a \in {rotate_left, rotate_right} :
       \A sens \in {sensors, <<"FalseSensor">>, <<>>} :
       \A ub \in OutcomesSampledAt(position) :
          LET r == Action_execute(a, position, sens, ub)
          IN /\ ~r.thrown /\ ~r.aborted /\ r.probes = <<>>
             /\ r.p.coordinates = position.coordinates
             /\ r.p.direction = Target(a.kind, position, ub).direction
    /\ (ExecutedOne("RotateLeft") \/ ExecutedOne("RotateRight")) =>
          /\ ~stopped /\ probes = <<>>
          /\ position.coordinates = before.position.coordinates
          /\ position.direction # before.position.direction
    /\ ((ExecutedOne("MoveForward") \/ ExecutedOne("MoveBackward")) /\ ~stopped) =>
          position.direction = before.position.direction

\* A rover standing on a cell that a sensor reports unsafe turned.
C18_Witness ==
    /\ ExecutedOne("RotateRight")
    /\ ~AllSafe(before.position.coordinates, sensors)
    /\ position.direction = Successor(before.position.direction)
    /\ ~stopped

\* C19: land and execute never change the command table or the sensor list
\* of the rover, which stay those it was built with, also when an unbound
\* character is executed; execute never changes landed.
C19_ConfigurationIsFixed ==
    /\ commands = before.commands /\ sensors = before.sensors
    /\ commands = written /\ sensors = added
    /\ Executed => landed = before.landed

\* A landed rover executed a string with an unbound character.
C19_Witness ==
    /\ Executed /\ before.landed
    /\ \E i \in 1..Len(command_list) : command_list[i] \notin DOMAIN before.commands
    /\ stopped
    /\ commands = before.commands

\* What execute would have left of the same rover, had its stopped flag
\* been the other way round when the call was made.
Twin ==
    Rover_execute(before.landed, ~before.stopped, before.position,
                  before.commands, before.sensors, command_list, overflow)

\* C20: the outcome of execute on a landed rover does not depend on the
\* stopped flag it starts with: the same rover with the flag the other way
\* round ends with the same position and the same stopped flag; a stopped
\* rover executes its commands like a running one.
C20_StoppedDoesNotMatter ==
    (Executed /\ before.landed) =>
        /\ position = Twin.position
        /\ stopped = Twin.stopped
        /\ raised = Twin.raised
        /\ position = Expected.position

\* A stopped rover moved and is no longer stopped.
C20_Witness ==
    /\ Executed /\ before.landed /\ before.stopped
    /\ position.coordinates # before.position.coordinates
    /\ ~stopped

====
